---- MODULE Spec2Model ----
(***************************************************************************)
(* Model of tensorflow_model_analysis/writers/metrics_and_plots_writer.py  *)
(*                                                                         *)
(* The factory MetricsAndPlotsWriter builds a stage closed over            *)
(* output_paths and add_metrics_callbacks.  Applying the stage to an       *)
(* Evaluation runs the body of _WriteMetricsAndPlots statement by          *)
(* statement (pc is the line about to run): two key lookups, the           *)
(* application of SerializeMetricsAndPlots, two conditional applications   *)
(* of WriteToTFRecord, and the return of PDone.  The body only builds the  *)
(* pipeline graph; the engine runs the graph afterwards: a transform       *)
(* starts once all of its input collections are materialised, the two      *)
(* writes are independent branches.                                        *)
(***************************************************************************)
EXTENDS Naturals, Sequences, FiniteSets, Bags, TLC

(* ------------------------------ bounds --------------------------------- *)
MaxRecords == 2        \* records per dataset
MaxCallbacks == 2      \* length of add_metrics_callbacks
MaxPartitions == 2     \* parallel partitions of a written dataset

(* ----------------------------- constants ------------------------------- *)
METRICS_KEY == "metrics"
PLOTS_KEY == "plots"
Kinds == {METRICS_KEY, PLOTS_KEY}
OtherKey == "debug"                 \* a key of output_paths that is no kind
PathKeys == Kinds \cup {OtherKey}
Paths == {"/tmp/m", "/tmp/p"}       \* path prefixes the caller may configure
Records == {"a", "b"}               \* per-slice records
Callbacks == {"cb1", "cb2"}         \* opaque callback handles

SerializeLabel == "SerializeMetricsAndPlots"
WriteMetricsLabel == "WriteMetrics"
WritePlotsLabel == "WritePlots"
WriteLabels == {WriteMetricsLabel, WritePlotsLabel}
Labels == {SerializeLabel} \cup WriteLabels
WriteLabel(k) == IF k = METRICS_KEY THEN WriteMetricsLabel ELSE WritePlotsLabel
KindOf(l) == IF l = WriteMetricsLabel THEN METRICS_KEY ELSE PLOTS_KEY

(* ------------------------------ helpers -------------------------------- *)
\* partial mappings (Python dicts) from keys K to values V
Dicts(K, V) == UNION {[D -> V] : D \in SUBSET K}

\* lists over S of length at most n
SeqsUpTo(S, n) == UNION {[1..m -> S] : m \in 0..n}

\* datasets: bags of records with at most n records in all
BagsUpTo(S, n) == {B \in UNION {[D -> 1..n] : D \in SUBSET S} : BagCardinality(B) <= n}

\* f with the entries of g added or replaced
Override(f, g) ==
    [x \in DOMAIN f \cup DOMAIN g |-> IF x \in DOMAIN g THEN g[x] ELSE f[x]]

\* handles of datasets (PCollections) in the pipeline graph
EvalPColl(k) == [origin |-> "evaluation", kind |-> k]
SerPColl(k) == [origin |-> "serialized", kind |-> k]
Unbound == [origin |-> "unbound", kind |-> ""]

\* names of files: a path prefix followed by a shard suffix (<<>> is no suffix)
FileName(prefix, shard) == [prefix |-> prefix, shard |-> shard]

\* a file that is on storage before the stage is built, at a path the stage
\* is not configured with
KeepFile == FileName("/data/keep", <<>>)
KeepContent == SetToBag({[kind |-> METRICS_KEY, payload |-> "a", callbacks |-> <<>>]})

VARIABLES
    output_paths,            \* argument of the factory
    add_metrics_callbacks,   \* argument of the factory
    evaluation,              \* the Evaluation the stage is applied to
    stage,                   \* {} or {the writer.Writer the factory returned}
    pc,                      \* position in the body of _WriteMetricsAndPlots
    metrics,                 \* local variable metrics
    plots,                   \* local variable plots
    graph,                   \* transforms applied so far, by label
    result,                  \* "none", "PDone" or "KeyError"
    runStatus,               \* "notstarted", "running", "succeeded", "failed"
    nodeStatus,              \* per applied transform: pending/running/done/failed
    attempts,                \* per applied transform: times it was started
    materialized,            \* datasets computed so far, by handle
    fs,                      \* durable storage: file name -> bag of records
    order                    \* write labels in order of completion

vars == <<output_paths, add_metrics_callbacks, evaluation, stage, pc, metrics,
          plots, graph, result, runStatus, nodeStatus, attempts, materialized,
          fs, order>>

inputs == <<output_paths, add_metrics_callbacks, evaluation>>
expandVars == <<stage, pc, metrics, plots, graph, result>>
runVars == <<runStatus, nodeStatus, attempts, materialized, fs, order>>

Init ==
    /\ output_paths \in Dicts(PathKeys, Paths)
    /\ add_metrics_callbacks \in SeqsUpTo(Callbacks, MaxCallbacks)
    /\ evaluation \in Dicts(Kinds, BagsUpTo(Records, MaxRecords))
    /\ stage = {}
    /\ pc = "new"
    /\ metrics = Unbound
    /\ plots = Unbound
    /\ graph = << >>
    /\ result = "none"
    /\ runStatus = "notstarted"
    /\ nodeStatus = << >>
    /\ attempts = << >>
    /\ materialized = << >>
    /\ fs = (KeepFile :> KeepContent)
    /\ order = << >>

(* ------------------------------ factory -------------------------------- *)
\* the stage the factory returns, lines 41-45
NewStageDropsCallbacks(paths, callbacks) ==
    [stage_name |-> "WriteMetricsAndPlots",
     output_paths |-> paths,
     add_metrics_callbacks |-> << >>]

NewStage(paths, callbacks) ==
    [stage_name |-> "WriteMetricsAndPlots",
     output_paths |-> paths,
     add_metrics_callbacks |-> callbacks]

MetricsAndPlotsWriter ==
    /\ pc = "new"
    /\ stage' = {NewStage(output_paths, add_metrics_callbacks)}
    /\ pc' = "l56"
    /\ UNCHANGED <<inputs, metrics, plots, graph, result, runVars>>

TheStage == CHOOSE s \in stage : TRUE

(* ------------------- body of _WriteMetricsAndPlots --------------------- *)
\* evaluation[key]: the keys whose lookup raises KeyError
LazyMissing(key) == key \notin DOMAIN evaluation /\ key \in DOMAIN TheStage.output_paths

NeverMissing(key) == FALSE

Missing(key) == key \notin DOMAIN evaluation

\* line 56: metrics = evaluation[constants.METRICS_KEY]
LookupMetrics ==
    /\ pc = "l56"
    /\ IF Missing(METRICS_KEY)
         THEN /\ pc' = "raised"
              /\ result' = "KeyError"
              /\ UNCHANGED metrics
         ELSE /\ pc' = "l57"
              /\ metrics' = EvalPColl(METRICS_KEY)
              /\ UNCHANGED result
    /\ UNCHANGED <<inputs, stage, plots, graph, runVars>>

\* the statement that follows the two lookups: the serialization, line 59
SkipsSerialization == "l64"

AfterLookups == "l59"

\* line 57: plots = evaluation[constants.PLOTS_KEY]
LookupPlots ==
    /\ pc = "l57"
    /\ IF Missing(PLOTS_KEY)
         THEN /\ pc' = "raised"
              /\ result' = "KeyError"
              /\ UNCHANGED plots
         ELSE /\ pc' = AfterLookups
              /\ plots' = EvalPColl(PLOTS_KEY)
              /\ UNCHANGED result
    /\ UNCHANGED <<inputs, stage, metrics, graph, runVars>>

\* the callback list handed to the serialization collaborator, line 62
ReversedCallbacks(callbacks) ==
    [i \in 1..Len(callbacks) |-> callbacks[Len(callbacks) + 1 - i]]

PassedCallbacks(callbacks) == callbacks

\* lines 59-62: metrics, plots = (metrics, plots) | SerializeMetricsAndPlots(...)
ApplySerialize ==
    /\ pc = "l59"
    /\ graph' = Override(graph, SerializeLabel :>
                    [transform |-> "SerializeMetricsAndPlots",
                     inputs |-> <<metrics, plots>>,
                     outputs |-> <<SerPColl(METRICS_KEY), SerPColl(PLOTS_KEY)>>,
                     add_metrics_callbacks |->
                         PassedCallbacks(TheStage.add_metrics_callbacks)])
    /\ metrics' = SerPColl(METRICS_KEY)
    /\ plots' = SerPColl(PLOTS_KEY)
    /\ pc' = "l64"
    /\ UNCHANGED <<inputs, stage, result, runVars>>

\* shard_name_template of the two writes, lines 70 and 80
DefaultShardNameTemplate(k) == "-SSSSS-of-NNNNN"

ShardNameTemplate(k) == ""

\* the dataset a write consumes: the local variable of its kind, lines 68, 78
RawDataset(k) == EvalPColl(k)

WrittenDataset(k) == IF k = METRICS_KEY THEN metrics ELSE plots

\* the condition guarding a write, lines 64 and 72
ConfiguredMetricsOnly(k) == k = METRICS_KEY /\ k \in DOMAIN TheStage.output_paths

Configured(k) == k \in DOMAIN TheStage.output_paths

\* the path prefix of a write, lines 69 and 79
SharedPathPrefix(k) ==
    IF METRICS_KEY \in DOMAIN TheStage.output_paths
      THEN TheStage.output_paths[METRICS_KEY]
      ELSE TheStage.output_paths[k]

PathPrefix(k) == TheStage.output_paths[k]

WriteNode(k) ==
    [transform |-> "WriteToTFRecord",
     inputs |-> <<WrittenDataset(k)>>,
     file_path_prefix |-> PathPrefix(k),
     shard_name_template |-> ShardNameTemplate(k)]

\* lines 64-70: if METRICS_KEY in output_paths: metrics | WriteToTFRecord(...)
IssueWriteMetrics ==
    /\ pc = "l64"
    /\ IF Configured(METRICS_KEY)
         THEN graph' = Override(graph, WriteMetricsLabel :> WriteNode(METRICS_KEY))
         ELSE UNCHANGED graph
    /\ pc' = "l72"
    /\ UNCHANGED <<inputs, stage, metrics, plots, result, runVars>>

\* lines 72-80: if PLOTS_KEY in output_paths: plots | WriteToTFRecord(...)
IssueWritePlots ==
    /\ pc = "l72"
    /\ IF Configured(PLOTS_KEY)
         THEN graph' = Override(graph, WritePlotsLabel :> WriteNode(PLOTS_KEY))
         ELSE UNCHANGED graph
    /\ pc' = "l82"
    /\ UNCHANGED <<inputs, stage, metrics, plots, result, runVars>>

\* line 82: return beam.pvalue.PDone(metrics.pipeline)
ReturnPDone ==
    /\ pc = "l82"
    /\ pc' = "returned"
    /\ result' = "PDone"
    /\ UNCHANGED <<inputs, stage, metrics, plots, graph, runVars>>

Expand ==
    \/ MetricsAndPlotsWriter
    \/ LookupMetrics
    \/ LookupPlots
    \/ ApplySerialize
    \/ IssueWriteMetrics
    \/ IssueWritePlots
    \/ ReturnPDone

(* ------------------- the serialization collaborator -------------------- *)
\* one serialized record: the bytes are determined by the kind, the record
\* and the callbacks the record is converted with
SerializedRecord(k, r, callbacks) ==
    [kind |-> k, payload |-> r, callbacks |-> callbacks]

\* a dataset serialized record by record
SerializedDataset(k, B, callbacks) ==
    [s \in {SerializedRecord(k, r, callbacks) : r \in BagToSet(B)} |-> B[s.payload]]

\* (serialized metrics, serialized plots)
SerializeMetricsAndPlots(m, p, callbacks) ==
    <<SerializedDataset(METRICS_KEY, m, callbacks),
      SerializedDataset(PLOTS_KEY, p, callbacks)>>

(* -------------------------- the write primitive ------------------------ *)
\* number of files a write produces from n partitions: the empty template
\* forces a single shard
NumShards(template, n) == IF template = "" THEN 1 ELSE n

\* suffix of shard i of n: the empty template gives no suffix
ShardSuffix(template, i, n) == IF template = "" THEN << >> ELSE <<i, n>>

\* the ways of distributing the records of B over m shards
RECURSIVE Splits(_, _)
Splits(B, m) ==
    IF m = 1 THEN {<<B>>}
    ELSE UNION {{<<b>> \o s : s \in Splits(B (-) b, m - 1)} : b \in SubBag(B)}

\* the files one way of sharding produces
ShardFiles(prefix, template, split) ==
    [f \in {FileName(prefix, ShardSuffix(template, i, Len(split))) : i \in 1..Len(split)}
        |-> IF f.shard = << >> THEN split[1] ELSE split[f.shard[1]]]

(* ------------------------- running the pipeline ------------------------ *)
\* the engine starts the graph the body built
RunPipeline ==
    /\ result = "PDone"
    /\ runStatus = "notstarted"
    /\ runStatus' = "running"
    /\ nodeStatus' = [l \in DOMAIN graph |-> "pending"]
    /\ attempts' = [l \in DOMAIN graph |-> 0]
    /\ materialized' = [h \in {EvalPColl(k) : k \in DOMAIN evaluation} |->
                            evaluation[h.kind]]
    /\ UNCHANGED <<inputs, expandVars, fs, order>>

Ready(l) == \A i \in 1..Len(graph[l].inputs) : graph[l].inputs[i] \in DOMAIN materialized

\* a transform starts once its inputs are there
NodeStart(l) ==
    /\ runStatus = "running"
    /\ l \in DOMAIN graph
    /\ nodeStatus[l] = "pending"
    /\ Ready(l)
    /\ nodeStatus' = [nodeStatus EXCEPT ![l] = "running"]
    /\ attempts' = [attempts EXCEPT ![l] = @ + 1]
    /\ UNCHANGED <<inputs, expandVars, runStatus, materialized, fs, order>>

\* the serialization finishes: its two outputs are materialised
SerializeFinish ==
    /\ SerializeLabel \in DOMAIN nodeStatus
    /\ nodeStatus[SerializeLabel] = "running"
    /\ LET n == graph[SerializeLabel]
           out == SerializeMetricsAndPlots(materialized[n.inputs[1]],
                                           materialized[n.inputs[2]],
                                           n.add_metrics_callbacks)
       IN materialized' = Override(materialized,
                              (n.outputs[1] :> out[1]) @@ (n.outputs[2] :> out[2]))
    /\ nodeStatus' = [nodeStatus EXCEPT ![SerializeLabel] = "done"]
    /\ UNCHANGED <<inputs, expandVars, runStatus, attempts, fs, order>>

\* a write finishes: its shard files are on storage
WriteFinish(l) ==
    /\ l \in WriteLabels \cap DOMAIN nodeStatus
    /\ nodeStatus[l] = "running"
    /\ \E n \in 1..MaxPartitions :
         \E split \in Splits(materialized[graph[l].inputs[1]],
                             NumShards(graph[l].shard_name_template, n)) :
            fs' = Override(fs, ShardFiles(graph[l].file_path_prefix,
                                          graph[l].shard_name_template, split))
    /\ nodeStatus' = [nodeStatus EXCEPT ![l] = "done"]
    /\ order' = Append(order, l)
    /\ UNCHANGED <<inputs, expandVars, runStatus, attempts, materialized>>

\* the state of the run after a transform raised: the stage has no handler,
\* lines 59-82
SwallowedFailure(status) == status

RunStatusAfterFailure(status) == "failed"

\* a running transform raises
NodeFail(l) ==
    /\ l \in DOMAIN nodeStatus
    /\ nodeStatus[l] = "running"
    /\ nodeStatus' = [nodeStatus EXCEPT ![l] = "failed"]
    /\ runStatus' = RunStatusAfterFailure(runStatus)
    /\ UNCHANGED <<inputs, expandVars, attempts, materialized, fs, order>>

\* every transform of the graph is done
RunSucceed ==
    /\ runStatus = "running"
    /\ \A l \in DOMAIN nodeStatus : nodeStatus[l] = "done"
    /\ runStatus' = "succeeded"
    /\ UNCHANGED <<inputs, expandVars, nodeStatus, attempts, materialized, fs, order>>

Run ==
    \/ RunPipeline
    \/ \E l \in Labels : NodeStart(l)
    \/ SerializeFinish
    \/ \E l \in WriteLabels : WriteFinish(l)
    \/ \E l \in Labels : NodeFail(l)
    \/ RunSucceed

Next == Expand \/ Run

Spec == Init /\ [][Next]_vars

(* ============================== properties ============================= *)
ConfiguredKinds == Kinds \cap DOMAIN output_paths
BothKeys == Kinds \subseteq DOMAIN evaluation
IssuedWrites == DOMAIN graph \cap WriteLabels
SelectedWrites == {WriteLabel(k) : k \in ConfiguredKinds}
InitialFs == (KeepFile :> KeepContent)
OutputFiles == DOMAIN fs \ {KeepFile}
FilesAt(p) == {f \in DOMAIN fs : f.prefix = p}
ExpectedContent(k) == SerializedDataset(k, evaluation[k], add_metrics_callbacks)
DistinctPaths ==
    ConfiguredKinds = Kinds => output_paths[METRICS_KEY] # output_paths[PLOTS_KEY]
SoleAt(k) == \A j \in ConfiguredKinds : j # k => output_paths[j] # output_paths[k]
BeforeSerialize == {"new", "l56", "l57"}
Status(l) == IF l \in DOMAIN nodeStatus THEN nodeStatus[l] ELSE "absent"

\* C1: a write is issued for a kind exactly when the kind is a key of
\* output_paths; the number of writes issued is the number of configured
\* kinds; a key outside {metrics, plots} causes no write and no error.
C1_WritesIffConfigured ==
    /\ IssuedWrites \subseteq SelectedWrites
    /\ DOMAIN attempts \cap WriteLabels \subseteq SelectedWrites
    /\ pc = "returned" =>
          /\ IssuedWrites = SelectedWrites
          /\ Cardinality(IssuedWrites) = Cardinality(ConfiguredKinds)
    /\ BothKeys => result # "KeyError"

C1_Witness ==
    /\ pc = "returned"
    /\ DOMAIN output_paths = {METRICS_KEY, OtherKey}
    /\ IssuedWrites = {WriteMetricsLabel}

\* C2 as stated: after a successful run every configured kind has exactly
\* one file at its path, holding exactly that kind's serialized records,
\* for every output_paths mapping (same path for both kinds included).
C2_Original ==
    runStatus = "succeeded" =>
        \A k \in ConfiguredKinds :
            /\ FilesAt(output_paths[k]) = {FileName(output_paths[k], << >>)}
            /\ fs[FileName(output_paths[k], << >>)] = ExpectedContent(k)

\* C2 amended: the same, for every configured kind whose path prefix is not
\* also the path prefix of the other configured kind.
C2_DistinctPaths ==
    runStatus = "succeeded" =>
        \A k \in ConfiguredKinds :
            SoleAt(k) =>
                /\ FilesAt(output_paths[k]) = {FileName(output_paths[k], << >>)}
                /\ fs[FileName(output_paths[k], << >>)] = ExpectedContent(k)

C2_Witness ==
    /\ runStatus = "succeeded"
    /\ ConfiguredKinds = Kinds
    /\ output_paths[METRICS_KEY] # output_paths[PLOTS_KEY]
    /\ evaluation[METRICS_KEY] # EmptyBag
    /\ evaluation[PLOTS_KEY] # EmptyBag
    /\ evaluation[METRICS_KEY] # evaluation[PLOTS_KEY]
    /\ order = <<WriteMetricsLabel, WritePlotsLabel>>

\* C3: every file the stage puts on storage is named by its path prefix
\* alone (no shard suffix), a completed run leaves exactly one file per
\* configured kind whatever the dataset size and partitioning, and empty
\* datasets leave zero-record files.
C3_SingleShard ==
    /\ \A f \in OutputFiles : f.shard = << >>
    /\ runStatus = "succeeded" =>
          \A k \in ConfiguredKinds :
              /\ FilesAt(output_paths[k]) = {FileName(output_paths[k], << >>)}
              /\ (\A j \in Kinds : evaluation[j] = EmptyBag) =>
                    fs[FileName(output_paths[k], << >>)] = EmptyBag

C3_Witness ==
    /\ runStatus = "succeeded"
    /\ ConfiguredKinds = Kinds
    /\ BagCardinality(evaluation[METRICS_KEY]) = MaxRecords
    /\ evaluation[PLOTS_KEY] = EmptyBag
    /\ Cardinality(OutputFiles) = 2

\* C4: with 'plots' missing from the Evaluation and requested by
\* output_paths the body raises a lookup error at the latest at line 57: no
\* marker is returned, no write is issued, the pipeline never runs and no
\* output file exists.
C4_MissingPlotsRequested ==
    (PLOTS_KEY \notin DOMAIN evaluation /\ PLOTS_KEY \in DOMAIN output_paths) =>
        /\ pc \in BeforeSerialize \cup {"raised"}
        /\ pc \in BeforeSerialize => ENABLED Expand
        /\ pc = "raised" => result = "KeyError"
        /\ result # "PDone"
        /\ IssuedWrites = {}
        /\ runStatus = "notstarted"
        /\ OutputFiles = {}

C4_Witness ==
    /\ PLOTS_KEY \notin DOMAIN evaluation
    /\ METRICS_KEY \in DOMAIN evaluation
    /\ ConfiguredKinds = Kinds
    /\ metrics = EvalPColl(METRICS_KEY)
    /\ result = "KeyError"

\* C5: with both keys in the Evaluation the body always runs on to return
\* the marker, whatever output_paths is; when the marker is returned the
\* serialization has been applied and exactly the selected writes have been
\* issued; no transform has run before the marker is returned.
C5_MarkerAfterIssue ==
    /\ BothKeys =>
          /\ pc # "raised"
          /\ result # "KeyError"
          /\ pc # "returned" => ENABLED Expand
    /\ result = "PDone" =>
          /\ SerializeLabel \in DOMAIN graph
          /\ graph[SerializeLabel].inputs = <<EvalPColl(METRICS_KEY), EvalPColl(PLOTS_KEY)>>
          /\ IssuedWrites = SelectedWrites
    /\ result # "PDone" => runStatus = "notstarted" /\ OutputFiles = {}

C5_Witness ==
    /\ result = "PDone"
    /\ runStatus = "notstarted"
    /\ ConfiguredKinds = Kinds
    /\ IssuedWrites = WriteLabels
    /\ OutputFiles = {}

\* C6: no transform is started more than once, a failed transform stays
\* failed, and once a transform has failed the run is failed and stays
\* failed (it never becomes succeeded).
C6_NoRetryNoRecovery ==
    [][/\ \A l \in DOMAIN attempts' : attempts'[l] <= 1
       /\ \A l \in DOMAIN nodeStatus :
             nodeStatus[l] = "failed" => nodeStatus'[l] = "failed"
       /\ (\E l \in DOMAIN nodeStatus' : nodeStatus'[l] = "failed") =>
             runStatus' = "failed"
       /\ runStatus = "failed" => runStatus' = "failed"]_vars

C6_Witness ==
    /\ runStatus = "failed"
    /\ Status(WriteMetricsLabel) = "failed"
    /\ Status(WritePlotsLabel) = "done"
    /\ attempts[SerializeLabel] = 1

\* C7: the factory cannot fail and does no I/O: once it has returned, the
\* stage is named WriteMetricsAndPlots and holds both arguments as given,
\* and storage is as it was until the pipeline runs.
C7_FactoryPure ==
    /\ pc = "new" => stage = {} /\ result = "none" /\ ENABLED MetricsAndPlotsWriter
    /\ pc # "new" =>
          stage = {[stage_name |-> "WriteMetricsAndPlots",
                    output_paths |-> output_paths,
                    add_metrics_callbacks |-> add_metrics_callbacks]}
    /\ runStatus = "notstarted" => fs = InitialFs

C7_Witness ==
    /\ pc = "l56"
    /\ stage # {}
    /\ add_metrics_callbacks = << >>
    /\ OtherKey \in DOMAIN output_paths
    /\ fs = InitialFs

\* C8: a write starts only after the serialization is done; a pending write
\* whose input is there can start whatever the state of the other write;
\* with both kinds configured at distinct paths a successful run ends with
\* the same files and contents under every interleaving.
C8_IndependentWrites ==
    /\ \A l \in WriteLabels :
          Status(l) \in {"running", "done", "failed"} => Status(SerializeLabel) = "done"
    /\ \A l \in WriteLabels :
          (runStatus = "running" /\ Status(l) = "pending"
             /\ Status(SerializeLabel) = "done") => ENABLED NodeStart(l)
    /\ (runStatus = "succeeded" /\ ConfiguredKinds = Kinds /\ DistinctPaths) =>
          fs = Override(InitialFs,
                   (FileName(output_paths[METRICS_KEY], << >>) :> ExpectedContent(METRICS_KEY))
                   @@ (FileName(output_paths[PLOTS_KEY], << >>) :> ExpectedContent(PLOTS_KEY)))

C8_Witness ==
    /\ runStatus = "succeeded"
    /\ ConfiguredKinds = Kinds
    /\ DistinctPaths
    /\ order = <<WritePlotsLabel, WriteMetricsLabel>>

C10_LookupsFirst ==
    ~BothKeys =>
        /\ pc \in BeforeSerialize \cup {"raised"}
        /\ pc \in BeforeSerialize => ENABLED Expand
        /\ pc = "raised" => result = "KeyError"
        /\ result # "PDone"
        /\ graph = << >>
        /\ runStatus = "notstarted"
        /\ fs = InitialFs

C10_Witness ==
    /\ pc = "raised"
    /\ result = "KeyError"
    /\ DOMAIN evaluation = {METRICS_KEY}
    /\ DOMAIN output_paths = {METRICS_KEY}
====
